---- MODULE Spec2Model ----
(***************************************************************************)
(* Model of app.py, the Streamlit "Lab Solution Calculator".               *)
(*                                                                         *)
(* Part I models the script as it is re-executed, top to bottom, on every  *)
(* user interaction: the favourites load, the login gate, the plan check,  *)
(* the sidebar logout and the "From solid" save action, against the three  *)
(* hosted collaborators (identity provider, subscriptions table, reagents  *)
(* table).  A collaborator's answer to a call is an input of the run.      *)
(*                                                                         *)
(* Part II models Python float arithmetic as binary floating point with    *)
(* Prec significant bits and round-to-nearest-even, and the calculator     *)
(* modes as operators over such floats.                                    *)
(***************************************************************************)
EXTENDS Integers, Sequences, FiniteSets, TLC

\* user, auth_session, fav_reagents: the keys of st.session_state, per
\*     browser session ("absent": the key is not set; fav_reagents absent
\*     and empty behave alike, lines 36-37)
\* reagents: the rows of the hosted reagents table, oldest first; the field
\*     "by" is history: who was logged in when the row was inserted
\* rerun: st.rerun() was called, the script is about to run again
\* lastRun: what the latest run of the script did and showed
\* authed: history, the identities a login of the session has returned
\* calc: the widget values and the output of one calculator run
VARIABLES user, auth_session, fav_reagents, reagents, rerun, lastRun, authed,
          calc

vars == <<user, auth_session, fav_reagents, reagents, rerun, lastRun, authed,
          calc>>

sessVars == <<user, auth_session, fav_reagents, reagents, rerun, lastRun, authed>>

(***************************************************************************)
(* Bounds of the model.                                                    *)
(***************************************************************************)
MaxReagents == 2

\* significant bits of the modelled float format (53 in CPython)
Prec == 7

\* most dilution steps and most listed concentrations of a multi-row mode
MaxSteps == 3

MaxConcs == 2

(***************************************************************************)
(* Part I.  Sessions, collaborators and the gated script.                  *)
(***************************************************************************)
DEMO_USER_ID == "e29394b6-5f7a-4aa7-8d30-9155165733e3"

Sessions == {"s1"}

Identities == {"u1", "u2"}

Names == {"retinal", "gaba"}

\* what the subscriptions query can hand back: no row, a row without the
\* plan column, a row whose plan is null, or a row with a tier string
PlanCells == {"norow", "nofield", "null", "free", "pro", "team"}

\* the options of the mode selector, lines 287-308
Modes == {"Single dilution", "Serial dilutions", "Experiment series",
          "From solid", "Unit converter", "% solutions",
          "Molarity from mass & volume", "OD / culture dilution",
          "Master mix / qPCR mix", "Make X stock from current stock",
          "Acid / base dilution", "Buffer helper", "Beer-Lambert / A280",
          "Cell seeding calculator", "Plate DMSO cap checker",
          "Aliquot splitter", "Storage / stability helper"}

NoRun == [page |-> "none", aborted |-> "no", failed |-> {}, lookup |-> "n/a",
          plan |-> "n/a", output |-> FALSE, mode |-> "n/a", msgs |-> {},
          saveShown |-> FALSE, loadedFor |-> "n/a", press |-> "n/a",
          name |-> "n/a"]

RECURSIVE SelectDesc(_, _)
\* the rows of the reagents table owned by user_id, newest first
SelectDesc(tbl, user_id) ==
    IF tbl = <<>> THEN <<>>
    ELSE LET r == tbl[Len(tbl)]
             rest == SelectDesc(SubSeq(tbl, 1, Len(tbl) - 1), user_id)
         IN  IF r.user_id = user_id THEN <<r>> \o rest ELSE rest

\* load_reagents: the query raises, answers with no data, or with the rows
load_reagents(user_id, resp) ==
    IF resp = "raise" THEN [exc |-> TRUE, val |-> <<>>]
    ELSE IF resp = "none" THEN [exc |-> FALSE, val |-> <<>>]
    ELSE [exc |-> FALSE, val |-> SelectDesc(reagents, user_id)]

InSeq(x, sq) == \E i \in 1..Len(sq) : sq[i] = x

RECURSIVE MergeNames(_, _)
\* for r in reagents_db: append r["name"] unless already in the list
MergeNames(favs, rows) ==
    IF rows = <<>> THEN favs
    ELSE MergeNames(IF InSeq(rows[1].name, favs) THEN favs
                    ELSE Append(favs, rows[1].name), Tail(rows))

\* login: sign_in_with_password raises or returns (session, user)
login(resp) ==
    IF resp = "raise" THEN [exc |-> TRUE, session |-> "None", user |-> "None"]
    ELSE [exc |-> FALSE, session |-> resp, user |-> resp]

\* signup: sign_up raises or returns the created user
signup(resp) ==
    IF resp = "raise" THEN [exc |-> TRUE, user |-> "None"]
    ELSE [exc |-> FALSE, user |-> resp]

get_subscription_plan_reraise(resp) ==
    IF resp = "raise" THEN [exc |-> TRUE, ret |-> "n/a", info |-> FALSE]
    ELSE IF resp \in {"norow", "nofield"}
         THEN [exc |-> FALSE, ret |-> "free", info |-> FALSE]
    ELSE IF resp = "null" THEN [exc |-> FALSE, ret |-> "None", info |-> FALSE]
    ELSE [exc |-> FALSE, ret |-> resp, info |-> FALSE]

\* get_subscription_plan: the value returned, whether an exception leaves
\* the function, and whether the "using FREE" notice was written
get_subscription_plan(resp) ==
    IF resp = "raise" THEN [exc |-> FALSE, ret |-> "free", info |-> TRUE]
    ELSE IF resp \in {"norow", "nofield"}
         THEN [exc |-> FALSE, ret |-> "free", info |-> FALSE]
    ELSE IF resp = "null" THEN [exc |-> FALSE, ret |-> "None", info |-> FALSE]
    ELSE [exc |-> FALSE, ret |-> resp, info |-> FALSE]

PlanAllows_not_free(plan) == plan # "free"

\* line 140: the calculators are shown only to the plan "pro"
PlanAllows(plan) == plan = "pro"

AbortRun(run, cause) ==
    [run EXCEPT !.aborted = cause, !.failed = @ \cup {cause}]

\* lines 549-567, "From solid": the save button.  The else branch belongs to
\* the button test, so the reminder is written when the button is NOT
\* pressed; a press with an empty name does nothing at all.
SaveFavorite(ia, ins, st, run) ==
    IF ia.kind = "save"
    THEN IF ia.name # ""
         THEN LET favs == IF InSeq(ia.name, st.favs) THEN st.favs
                          ELSE Append(st.favs, ia.name)
                  row == [user_id |-> DEMO_USER_ID, name |-> ia.name,
                          mw |-> ia.mw, note |-> "from app", by |-> st.user]
              IN  IF ins = "raise"
                  THEN [st EXCEPT !.favs = favs,
                                  !.run = AbortRun(run, "insert")]
                  ELSE [st EXCEPT !.favs = favs, !.tbl = Append(@, row),
                                  !.run = [run EXCEPT !.msgs = {"Saved"}]]
         ELSE [st EXCEPT !.run = run]
    ELSE [st EXCEPT !.run = [run EXCEPT !.msgs = {"Give the compound a name first."}]]

\* logout(), lines 61-70: a failing sign_out is swallowed, the keys "user"
\* and "plan" are deleted ("plan" is never stored), then st.rerun()
logout(resp, st, run) ==
    [st EXCEPT !.user = "absent", !.rerun = TRUE,
               !.run = [run EXCEPT !.failed =
                           IF resp = "raise" THEN @ \cup {"sign_out"} ELSE @]]

\* lines 172-902: sidebar (with the Logout button), mode selector, the mode;
\* press and name record the button pressed in the run and the compound name
\* in the "From solid" text field
App(ia, au, ins, st, run0) ==
    LET run == [run0 EXCEPT !.page = "app", !.press = ia.kind,
                            !.name = ia.name]
    IN  IF ia.kind = "logout" THEN logout(au, st, run)
        ELSE LET out == [run EXCEPT !.output = TRUE, !.mode = ia.mode,
                                    !.saveShown = (ia.mode = "From solid")]
             IN  IF ia.mode = "From solid" THEN SaveFavorite(ia, ins, st, out)
                 ELSE [st EXCEPT !.run = out]

\* lines 137-144: the plan of the logged-in user decides
PlanCheck(ia, au, sub, ins, st) ==
    LET p == get_subscription_plan(sub)
        run == [st.run EXCEPT !.lookup = sub, !.plan = p.ret,
                             !.failed = IF sub = "raise"
                                        THEN {"get_subscription_plan"} ELSE {},
                             !.msgs = IF p.info THEN {"using FREE"} ELSE {}]
    IN  IF p.exc
        THEN [st EXCEPT !.run = [run EXCEPT !.page = "error", !.plan = "n/a",
                                            !.aborted = "get_subscription_plan"]]
        ELSE IF ~PlanAllows(p.ret)
        THEN [st EXCEPT !.run = [run EXCEPT !.page = "free"]]
        ELSE App(ia, au, ins, st, run)

\* lines 104-132: the login page; st.stop() ends the run
LoginPage(ia, au, st) ==
    LET run == [st.run EXCEPT !.page = "login"]
    IN  IF ia.kind = "login"
        THEN LET r == login(au)
             IN  IF r.exc
                 THEN [st EXCEPT !.run = [run EXCEPT !.failed = {"login"},
                                                     !.msgs = {"Login failed"}]]
                 ELSE [st EXCEPT !.auth = r.session, !.user = r.user,
                                 !.rerun = TRUE, !.authed = @ \cup {r.user},
                                 !.run = run]
        ELSE IF ia.kind = "signup"
        THEN LET r == signup(au)
             IN  IF r.exc
                 THEN [st EXCEPT !.run = [run EXCEPT !.failed = {"signup"},
                                                     !.msgs = {"Signup failed"}]]
                 ELSE [st EXCEPT !.run = [run EXCEPT !.msgs = {"Account created"}]]
        ELSE [st EXCEPT !.run = run]

\* lines 99-104: default the two keys, then branch on the user
LoginGate(ia, au, sub, ins, st0) ==
    LET st == [st0 EXCEPT !.user = IF @ = "absent" THEN "None" ELSE @,
                          !.auth = IF @ = "absent" THEN "None" ELSE @]
    IN  IF st.user = "None" THEN LoginPage(ia, au, st)
        ELSE PlanCheck(ia, au, sub, ins, st)

\* one execution of the script for session s: lines 36-42 first
Script(s, ia, reg, au, sub, ins) ==
    LET st == [user |-> user[s], auth |-> auth_session[s],
               favs |-> fav_reagents[s], tbl |-> reagents, rerun |-> FALSE,
               authed |-> authed[s], run |-> NoRun]
        ld == load_reagents(DEMO_USER_ID, reg)
    IN  IF ld.exc
        THEN [st EXCEPT !.run = AbortRun([NoRun EXCEPT !.page = "error"],
                                         "load_reagents")]
        ELSE LoginGate(ia, au, sub, ins,
                       [st EXCEPT !.favs = MergeNames(@, ld.val),
                                  !.run = [NoRun EXCEPT !.loadedFor = DEMO_USER_ID]])

Apply(s, o) ==
    /\ user' = [user EXCEPT ![s] = o.user]
    /\ auth_session' = [auth_session EXCEPT ![s] = o.auth]
    /\ fav_reagents' = [fav_reagents EXCEPT ![s] = o.favs]
    /\ reagents' = o.tbl
    /\ rerun' = [rerun EXCEPT ![s] = o.rerun]
    /\ authed' = [authed EXCEPT ![s] = o.authed]
    /\ lastRun' = [lastRun EXCEPT ![s] = o.run]
    /\ UNCHANGED calc

RegResps == {"ok", "none", "raise"}

AuthResps == Identities \cup {"raise"}

SubResps == PlanCells \cup {"raise"}

MWs == {284}

Idle(m) == [kind |-> "idle", mode |-> m, name |-> "", mw |-> 0]

\* a run without a button press: first load, st.rerun(), a changed widget
Rerun(s) ==
    \E reg \in RegResps, sub \in SubResps, m \in Modes :
        Apply(s, Script(s, Idle(m), reg, "n/a", sub, "n/a"))

\* the Login button of the login page is pressed
Login(s) ==
    /\ ~rerun[s] /\ lastRun[s].page = "login"
    /\ \E reg \in RegResps, au \in AuthResps, sub \in SubResps :
        Apply(s, Script(s, [Idle("n/a") EXCEPT !.kind = "login"],
                        reg, au, sub, "n/a"))

\* the Create account button of the login page is pressed
Signup(s) ==
    /\ ~rerun[s] /\ lastRun[s].page = "login"
    /\ \E reg \in RegResps, au \in AuthResps, sub \in SubResps :
        Apply(s, Script(s, [Idle("n/a") EXCEPT !.kind = "signup"],
                        reg, au, sub, "n/a"))

\* the Logout button of the sidebar is pressed
Logout(s) ==
    /\ ~rerun[s] /\ lastRun[s].page = "app"
    /\ \E reg \in RegResps, au \in {"ok", "raise"}, sub \in SubResps :
        Apply(s, Script(s, [Idle("n/a") EXCEPT !.kind = "logout"],
                        reg, au, sub, "n/a"))

\* the save button of the "From solid" mode is pressed
Save(s) ==
    /\ ~rerun[s] /\ lastRun[s].saveShown
    /\ Len(reagents) < MaxReagents
    /\ \E reg \in RegResps, sub \in SubResps, ins \in {"ok", "raise"},
          n \in Names \cup {""}, w \in MWs :
        Apply(s, Script(s, [kind |-> "save", mode |-> "From solid",
                            name |-> n, mw |-> w], reg, "n/a", sub, ins))

NoCalc == [phase |-> "none", mode |-> "none"]

Init ==
    /\ user = [s \in Sessions |-> "absent"]
    /\ auth_session = [s \in Sessions |-> "absent"]
    /\ fav_reagents = [s \in Sessions |-> <<>>]
    /\ reagents = <<>>
    /\ rerun = [s \in Sessions |-> FALSE]
    /\ authed = [s \in Sessions |-> {}]
    /\ lastRun = [s \in Sessions |-> NoRun]
    /\ calc = NoCalc

Next ==
    \E s \in Sessions :
        \/ Rerun(s)
        \/ Login(s)
        \/ Signup(s)
        \/ Logout(s)
        \/ Save(s)

Spec == Init /\ [][Next]_vars

(***************************************************************************)
(* Claims about the gate and the collaborators, checked under Spec.        *)
(***************************************************************************)
\* C1: a run produces calculator output only if the session holds a user
\* that a successful login of this session set and the plan looked up for
\* that user in that run is "pro"; failed logins and signups do not count.
C1_GateNeedsLoginAndPro ==
    \A s \in Sessions :
        lastRun[s].output =>
            /\ user[s] \in Identities
            /\ user[s] \in authed[s]
            /\ lastRun[s].lookup = "pro"
            /\ lastRun[s].plan = "pro"

C1_Witness ==
    \E s \in Sessions :
        lastRun[s].output /\ user[s] \in authed[s] /\ lastRun[s].plan = "pro"

\* C2: when the entitlement lookup fails (the store raises, answers with no
\* row, or with a row lacking the plan field) get_subscription_plan returns
\* "free" and the run goes on to the free-plan page: nothing is propagated.
C2_LookupFailureGivesFree ==
    \A s \in Sessions :
        lastRun[s].lookup \in {"raise", "norow", "nofield"} =>
            /\ lastRun[s].plan = "free"
            /\ lastRun[s].aborted = "no"
            /\ lastRun[s].page = "free"

C2_Witness ==
    \E s \in Sessions :
        /\ lastRun[s].lookup = "raise"
        /\ lastRun[s].plan = "free"
        /\ lastRun[s].page = "free"

\* C3: the value get_subscription_plan returns is "free" or "pro", whatever
\* the subscriptions store holds.
C3_PlanIsFreeOrPro ==
    \A s \in Sessions :
        lastRun[s].lookup # "n/a" => lastRun[s].plan \in {"free", "pro"}

\* C4: no failing collaborator call (login, signup, sign-out, plan lookup,
\* favourites read, favourite insert) aborts the script run.
C4_CollaboratorFailureNeverAborts ==
    \A s \in Sessions :
        lastRun[s].failed # {} => lastRun[s].aborted = "no"

\* C5: the favourites a logged-in session loads are the registry rows of the
\* logged-in user, and every row a save creates carries the identity of the
\* user who was logged in when it was saved.
C5_FavoritesPerUser ==
    /\ \A s \in Sessions :
           (user[s] \in Identities /\ lastRun[s].page \in {"free", "app"})
               => lastRun[s].loadedFor = user[s]
    /\ \A i \in 1..Len(reagents) : reagents[i].user_id = reagents[i].by

(***************************************************************************)
(* Part II.  Floats.  A Python float is modelled as a binary floating      *)
(* point number [m, e] of value m * 2^e with Prec significant bits         *)
(* (2^(Prec-1) <= |m| < 2^Prec for a normal number) and the exponent range *)
(* of an IEEE 754 double: the leading bit of a normal number is worth      *)
(* 2^Emin .. 2^Emax, smaller numbers are subnormal (e = EminQ,             *)
(* |m| < 2^(Prec-1)) or zero, larger results overflow to an infinity.      *)
(* Every operation returns the exact result rounded to nearest, ties to    *)
(* even.  The sign of a zero is not modelled (no computation below tells    *)
(* 0.0 from -0.0).                                                         *)
(***************************************************************************)
Emax == 1023

Emin == -1022

\* the exponent e of the largest finite numbers and of the subnormals
EmaxQ == Emax - Prec + 1

EminQ == Emin - Prec + 1

RECURSIVE Pow2(_)
Pow2(n) == IF n <= 0 THEN 1 ELSE 2 * Pow2(n - 1)

RECURSIVE Pow10(_)
Pow10(n) == IF n <= 0 THEN 1 ELSE 10 * Pow10(n - 1)

Abs(i) == IF i < 0 THEN -i ELSE i

Zero == [m |-> 0, e |-> 0]

\* float('inf'), float('-inf') and nan: the exponent above every finite one
Inf == [m |-> 1, e |-> Emax + 1]

NegInf == [m |-> -1, e |-> Emax + 1]

NaN == [m |-> 0, e |-> Emax + 1]

IsNaN(x) == x = NaN

IsInf(x) == x = Inf \/ x = NegInf

IsFinite(x) == x.e <= EmaxQ

Neg(x) == [m |-> -x.m, e |-> x.e]

\* 2^k as a float (a typed-in value near the ends of the exponent range)
PowerOfTwo(k) == [m |-> Pow2(Prec - 1), e |-> k - Prec + 1]

\* n / d rounded to the nearest integer, ties to even (n >= 0, d > 0)
RoundHE(n, d) ==
    LET q == n \div d
        r == n % d
    IN  IF 2 * r > d \/ (2 * r = d /\ q % 2 = 1) THEN q + 1 ELSE q

RECURSIVE Norm(_, _, _)
\* (n / d) * 2^e, n > 0, rounded to Prec significant bits, or to a multiple
\* of 2^EminQ when it is below the normal range
Norm(n, d, e) ==
    IF n >= d * Pow2(Prec) THEN Norm(n, 2 * d, e + 1)
    ELSE IF n < d * Pow2(Prec - 1) /\ e > EminQ THEN Norm(2 * n, d, e - 1)
    ELSE IF e < EminQ
         THEN IF EminQ - e > Prec + 1 THEN Zero
              ELSE Norm(n, d * Pow2(EminQ - e), EminQ)
    ELSE LET q == RoundHE(n, d)
         IN  IF q = 0 THEN Zero
             ELSE IF q = Pow2(Prec) THEN [m |-> Pow2(Prec - 1), e |-> e + 1]
             ELSE [m |-> q, e |-> e]

Rnd(n, d, e) ==
    IF n = 0 THEN Zero
    ELSE LET r == Norm(Abs(n), d, e)
         IN  IF r.e > EmaxQ THEN (IF n < 0 THEN NegInf ELSE Inf)
             ELSE IF n < 0 THEN Neg(r)
             ELSE r

\* a decimal literal or typed-in number n/d, and int -> float
Lit(n, d) == Rnd(n, d, 0)

FromInt(n) == Rnd(n, 1, 0)

FMul(x, y) ==
    IF IsNaN(x) \/ IsNaN(y) THEN NaN
    ELSE IF IsInf(x) \/ IsInf(y)
         THEN IF x.m = 0 \/ y.m = 0 THEN NaN
              ELSE IF (x.m < 0) # (y.m < 0) THEN NegInf
              ELSE Inf
    ELSE Rnd(x.m * y.m, 1, x.e + y.e)

\* x / y for y # 0.0; for y = 0.0 Python raises ZeroDivisionError, which the
\* one place that can divide by zero, serial_step, models
FDiv(x, y) ==
    IF IsNaN(x) \/ IsNaN(y) \/ y.m = 0 THEN NaN
    ELSE IF IsInf(x)
         THEN IF IsInf(y) THEN NaN
              ELSE IF (x.m < 0) # (y.m < 0) THEN NegInf
              ELSE Inf
    ELSE IF IsInf(y) THEN Zero
    ELSE Rnd(IF y.m < 0 THEN -x.m ELSE x.m, Abs(y.m), x.e - y.e)

FAdd(x, y) ==
    IF IsNaN(x) \/ IsNaN(y) THEN NaN
    ELSE IF IsInf(x) THEN (IF IsInf(y) /\ x # y THEN NaN ELSE x)
    ELSE IF IsInf(y) THEN y
    ELSE IF x.m = 0 THEN y
    ELSE IF y.m = 0 THEN x
    ELSE LET hi == IF x.e >= y.e THEN x ELSE y
             lo == IF x.e >= y.e THEN y ELSE x
             sh == hi.e - lo.e
         IN  \* lo is below a quarter of hi's last place: hi is the result
             IF sh >= Prec + 2 THEN hi
             ELSE Rnd(hi.m * Pow2(sh) + lo.m, 1, lo.e)

FSub(x, y) == FAdd(x, Neg(y))

\* x < y; every comparison with nan is false
FLt(x, y) ==
    IF IsNaN(x) \/ IsNaN(y) THEN FALSE
    ELSE IF x.m = 0 THEN y.m > 0
    ELSE IF y.m = 0 THEN x.m < 0
    ELSE IF (x.m < 0) # (y.m < 0) THEN x.m < 0
    ELSE IF x.m > 0 THEN x.e < y.e \/ (x.e = y.e /\ x.m < y.m)
    ELSE x.e > y.e \/ (x.e = y.e /\ x.m < y.m)

FLe(x, y) == ~IsNaN(x) /\ ~IsNaN(y) /\ ~FLt(y, x)

\* math.floor of a float, as an integer (x finite and below 2^30: the
\* quotients of the aliquot splitter's inputs below)
Floor(x) ==
    IF x.e >= 0 THEN x.m * Pow2(x.e)
    ELSE IF -x.e > 30 THEN (IF x.m < 0 THEN -1 ELSE 0)
    ELSE x.m \div Pow2(-x.e)

\* round(x, nd): x to nd decimals (ties of the exact value to even), then
\* to the nearest float.  An integral x, an infinity and nan are their own
\* rounding; below 2^(Prec-31) the decimal rounding is 0 (Prec <= 10,
\* nd <= 6).
Round10(x, nd) ==
    IF x.e >= 0 THEN x
    ELSE IF -x.e > 30 THEN Zero
    ELSE LET y == RoundHE(Abs(x.m) * Pow10(nd), Pow2(-x.e))
             r == Rnd(y, Pow10(nd), 0)
         IN  IF x.m < 0 THEN Neg(r) ELSE r

(***************************************************************************)
(* Exact arithmetic on the values of floats (dyadic rationals), used only  *)
(* to state properties.                                                    *)
(***************************************************************************)
Min(a, b) == IF a < b THEN a ELSE b

RECURSIVE DReduce(_)
DReduce(x) ==
    IF x.m = 0 THEN Zero
    ELSE IF x.m % 2 = 0 THEN DReduce([m |-> x.m \div 2, e |-> x.e + 1])
    ELSE x

DAdd(x, y) ==
    IF x.m = 0 THEN DReduce(y)
    ELSE IF y.m = 0 THEN DReduce(x)
    ELSE LET a == DReduce(x)
             b == DReduce(y)
             e == Min(a.e, b.e)
         IN  DReduce([m |-> a.m * Pow2(a.e - e) + b.m * Pow2(b.e - e), e |-> e])

DSub(x, y) == DAdd(x, Neg(y))

DMul(x, y) ==
    LET a == DReduce(x)
        b == DReduce(y)
    IN  DReduce([m |-> a.m * b.m, e |-> a.e + b.e])

DAbs(x) == [m |-> Abs(x.m), e |-> x.e]

Sgn(i) == IF i < 0 THEN -1 ELSE IF i = 0 THEN 0 ELSE 1

\* the sign of a.m * 2^g - b.m for a.m, b.m > 0 and g >= 0
DCmpMag(am, g, bm) ==
    IF g > 30 \/ bm < Pow2(g) THEN 1
    ELSE LET q == bm \div Pow2(g)
             r == bm % Pow2(g)
         IN  IF am > q THEN 1
             ELSE IF am = q /\ r = 0 THEN 0
             ELSE -1

\* the sign of x - y, whatever the distance of the exponents
DSign(x, y) ==
    LET a == DReduce(x)
        b == DReduce(y)
    IN  IF a.m = 0 \/ b.m = 0 \/ Sgn(a.m) # Sgn(b.m) THEN Sgn(Sgn(a.m) - Sgn(b.m))
        ELSE IF a.e >= b.e
             THEN Sgn(a.m) * DCmpMag(Abs(a.m), a.e - b.e, Abs(b.m))
        ELSE -Sgn(a.m) * DCmpMag(Abs(b.m), b.e - a.e, Abs(a.m))

DEq(x, y) == DSign(x, y) = 0

DLe(x, y) == DSign(x, y) <= 0

DLt(x, y) == DSign(x, y) < 0

\* x < y for floats as extended reals (false for nan)
XLt(x, y) ==
    /\ ~IsNaN(x) /\ ~IsNaN(y) /\ x # y
    /\ \/ x = NegInf
       \/ y = Inf
       \/ IsFinite(x) /\ IsFinite(y) /\ DLt(x, y)

\* one unit in the last place of a float x # 0
Ulp(x) == [m |-> 1, e |-> x.e]

RECURSIVE DPow(_, _)
DPow(x, k) == IF k <= 0 THEN [m |-> 1, e |-> 0] ELSE DMul(x, DPow(x, k - 1))

(***************************************************************************)
(* Global settings, lines 235-262.                                         *)
(***************************************************************************)
One == FromInt(1)

Hundred == FromInt(100)

min_pip == One

vehicle_frac(gs) ==
    IF gs.vehicle_type # "Aqueous / none" /\ FLt(Zero, gs.stock_vehicle_percent)
    THEN FDiv(gs.stock_vehicle_percent, Hundred)
    ELSE Zero

\* (v1 * vehicle_frac / volume) * 100, lines 338, 402, 453 and 820
vehicle_percent(v1, vf, vol) == FMul(FDiv(FMul(v1, vf), vol), Hundred)

over_cap_ge(vp, cap) == FLe(cap, vp)

\* the advisory tests, lines 345 and 461; 352 and 405
over_cap(vp, cap) == FLt(cap, vp)

low_volume(v1) == FLt(v1, min_pip)

(***************************************************************************)
(* 1) Single dilution, lines 318-382.                                      *)
(***************************************************************************)
single_v1_swapped(stock_conc, target_conc, well_volume) ==
    FDiv(FMul(stock_conc, well_volume), target_conc)

\* lines 334-337
single_v1(stock_conc, target_conc, well_volume) ==
    FDiv(FMul(target_conc, well_volume), stock_conc)

single_solvent(well_volume, v1_ul) ==
    LET solvent_ul == FSub(well_volume, v1_ul)
    IN  IF FLt(solvent_ul, Zero) THEN Zero ELSE solvent_ul

single_dilution(in, gs) ==
    IF in.stock_unit # in.target_unit
    THEN [error |-> "For now, keep units the same"]
    ELSE LET v1_ul == single_v1(in.stock_conc, in.target_conc, gs.well_volume)
             vp == vehicle_percent(v1_ul, vehicle_frac(gs), gs.well_volume)
         IN  [error |-> "none",
              v1_ul |-> v1_ul,
              solvent_ul |-> single_solvent(gs.well_volume, v1_ul),
              vehicle_percent |-> vp,
              over_cap |-> over_cap(vp, gs.max_vehicle),
              low_volume |-> low_volume(v1_ul),
              c_intermediate |->
                  IF low_volume(v1_ul)
                  THEN FDiv(FMul(in.target_conc, gs.well_volume), min_pip)
                  ELSE Zero]

(***************************************************************************)
(* 2) Serial dilutions, lines 387-433: the rows as tabulated, and the      *)
(* loop's unrounded locals of each iteration.                              *)
(***************************************************************************)
\* one iteration; the division by current_conc raises ZeroDivisionError
\* when the concentration has underflowed to 0.0
serial_step(i, current_conc, in, vf) ==
    LET next_conc == FDiv(current_conc, in.dil_factor)
        v1_ul == FDiv(FMul(next_conc, in.final_vol_each), current_conc)
        solvent_ul == FSub(in.final_vol_each, v1_ul)
        vp == vehicle_percent(v1_ul, vf, in.final_vol_each)
    IN  [exc |-> current_conc = Zero,
         row |-> [step |-> i + 1,
                  from |-> Round10(current_conc, 6),
                  to |-> Round10(next_conc, 6),
                  take |-> Round10(v1_ul, 3),
                  solvent |-> Round10(solvent_ul, 3),
                  vehicle |-> Round10(vp, 5),
                  note |-> IF low_volume(v1_ul)
                           THEN "<1 ul -> make intermediate" ELSE ""],
         loc |-> [current_conc |-> current_conc, next_conc |-> next_conc,
                  v1_ul |-> v1_ul, solvent_ul |-> solvent_ul,
                  vehicle_percent |-> vp]]

RECURSIVE serial_loop(_, _, _, _, _)
\* lines 395-418
serial_loop(i, current_conc, in, vf, acc) ==
    IF i >= in.n_steps THEN acc
    ELSE LET s == serial_step(i, current_conc, in, vf)
         IN  IF s.exc THEN [error |-> "ZeroDivisionError"]
             ELSE serial_loop(i + 1, s.loc.next_conc, in, vf,
                              [error |-> "none",
                               rows |-> Append(acc.rows, s.row),
                               locs |-> Append(acc.locs, s.loc)])

serial_dilutions(in, gs) ==
    serial_loop(0, in.start_conc, in, vehicle_frac(gs),
                [error |-> "none", rows |-> <<>>, locs |-> <<>>])

(***************************************************************************)
(* 3) Experiment series, lines 438-482, and 15) Plate DMSO cap checker,    *)
(* lines 808-829.  conc_txt is modelled as its comma-separated pieces: a   *)
(* number, a blank piece (skipped), or text float() rejects.               *)
(***************************************************************************)
RECURSIVE parse_concs(_)
parse_concs(toks) ==
    IF toks = <<>> THEN [exc |-> FALSE, val |-> <<>>]
    ELSE LET rest == parse_concs(Tail(toks))
         IN  IF toks[1].kind = "blank" THEN rest
             ELSE IF toks[1].kind = "bad" \/ rest.exc
                  THEN [exc |-> TRUE, val |-> <<>>]
             ELSE [exc |-> FALSE, val |-> <<toks[1].val>> \o rest.val]

series_row(c, in, gs) ==
    LET v1_ul == FDiv(FMul(c, gs.well_volume), in.stock_conc_uM)
        solvent_ul == FSub(gs.well_volume, v1_ul)
        vp == vehicle_percent(v1_ul, vehicle_frac(gs), gs.well_volume)
        total_vol_ul == FMul(FMul(FAdd(v1_ul, solvent_ul), FromInt(in.reps)),
                             in.overfill)
    IN  [row |-> [final_conc |-> c,
                  add_stock |-> Round10(v1_ul, 3),
                  add_medium |-> Round10(solvent_ul, 3),
                  vehicle |-> Round10(vp, 5),
                  ok |-> IF over_cap(vp, gs.max_vehicle) THEN "> limit" ELSE "ok",
                  total |-> Round10(total_vol_ul, 1)],
         loc |-> [v1_ul |-> v1_ul, solvent_ul |-> solvent_ul,
                  vehicle_percent |-> vp]]

experiment_series(in, gs) ==
    LET p == parse_concs(in.conc_txt)
    IN  IF p.exc THEN [error |-> "ValueError"]
        ELSE [error |-> "none",
              rows |-> [k \in 1..Len(p.val) |-> series_row(p.val[k], in, gs).row],
              locs |-> [k \in 1..Len(p.val) |-> series_row(p.val[k], in, gs).loc]]

plate_row(c, in, gs) ==
    LET v1_ul == FDiv(FMul(c, gs.well_volume), in.stock_conc_uM)
        dmso_percent == vehicle_percent(v1_ul, vehicle_frac(gs), gs.well_volume)
    IN  [row |-> [final_conc |-> c,
                  stock_vol |-> Round10(v1_ul, 3),
                  dmso |-> Round10(dmso_percent, 5),
                  ok |-> IF FLe(dmso_percent, in.dmso_cap) THEN "ok" ELSE "EXCEEDS"],
         loc |-> [v1_ul |-> v1_ul, vehicle_percent |-> dmso_percent]]

plate_dmso_cap(in, gs) ==
    LET p == parse_concs(in.conc_txt)
    IN  IF p.exc THEN [error |-> "ValueError"]
        ELSE [error |-> "none",
              rows |-> [k \in 1..Len(p.val) |-> plate_row(p.val[k], in, gs).row],
              locs |-> [k \in 1..Len(p.val) |-> plate_row(p.val[k], in, gs).loc]]

(***************************************************************************)
(* 16) Aliquot splitter, lines 834-850.                                    *)
(***************************************************************************)
aliquot_count(usable_vol_ml, aliquot_vol_ml) ==
    Floor(FDiv(usable_vol_ml, aliquot_vol_ml))

aliquot_leftover(usable_vol_ml, n_aliquots, aliquot_vol_ml) ==
    FSub(usable_vol_ml, FMul(FromInt(n_aliquots), aliquot_vol_ml))

\* math.floor raises OverflowError when the quotient has overflowed to inf
aliquot_splitter(in) ==
    LET usable_vol_ml == FSub(in.total_vol_ml, in.dead_vol_ml)
    IN  IF FLe(usable_vol_ml, Zero)
        THEN [error |-> "Dead volume is >= total volume."]
        ELSE IF ~IsFinite(FDiv(usable_vol_ml, in.aliquot_vol_ml))
        THEN [error |-> "OverflowError"]
        ELSE LET n_aliquots == aliquot_count(usable_vol_ml, in.aliquot_vol_ml)
             IN  [error |-> "none",
                  usable_vol_ml |-> usable_vol_ml,
                  n_aliquots |-> n_aliquots,
                  leftover |-> aliquot_leftover(usable_vol_ml, n_aliquots,
                                                in.aliquot_vol_ml)]

(***************************************************************************)
(* st.number_input(..., min_value=m): the widget hands the script the      *)
(* typed number only if it is at least m; a smaller number is refused at   *)
(* the widget and no run of the script ever computes with it.              *)
(***************************************************************************)
number_input_nomin(typed, min_value) == TRUE

number_input(typed, min_value) == FLe(min_value, typed)

Refused == [error |-> "below min_value"]

Thousand == FromInt(1000)

(***************************************************************************)
(* 4) From solid, lines 487-546: the mass to weigh for the target          *)
(* concentration, the stock obtained by dissolving all the powder, and the *)
(* light-sensitivity note.  (The save button of this section is modelled   *)
(* in Part I.)                                                             *)
(***************************************************************************)
\* any(word in name for word in ["retinal", "retinoic", "rhodamine", "fitc"]),
\* for the names used here
light_sensitive(compound_name) ==
    compound_name \in {"retinal", "retinoic acid"}

mol_per_L(target_conc, target_unit) ==
    IF target_unit = "uM" THEN FMul(target_conc, Lit(1, 1000000))
    ELSE FMul(target_conc, Lit(1, 1000))

m_needed_mg_vol_in_L(C, final_vol_ml, mw) ==
    FMul(FMul(FMul(C, final_vol_ml), mw), Thousand)

\* lines 523-530
m_needed_mg(C, final_vol_ml, mw) ==
    LET V_L == FDiv(final_vol_ml, Thousand)
        m_needed_g == FMul(FMul(C, V_L), mw)
    IN  FMul(m_needed_g, Thousand)

from_solid(in) ==
    IF ~(/\ number_input(in.mass_mg, Lit(1, 10000))
         /\ number_input(in.mw, One)
         /\ number_input(in.target_conc, Lit(1, 10000))
         /\ number_input(in.final_vol_ml, Lit(1, 10)))
    THEN Refused
    ELSE LET C == mol_per_L(in.target_conc, in.target_unit)
             mass_g == FDiv(in.mass_mg, Thousand)
             n_mol == FDiv(mass_g, in.mw)
         IN  [error |-> "none",
              C |-> C,
              m_needed_mg |-> m_needed_mg(C, in.final_vol_ml, in.mw),
              stock_if_1ml_mM |-> FMul(FDiv(n_mol, Lit(1, 1000)), Thousand),
              stock_if_2ml_mM |-> FMul(FDiv(n_mol, Lit(2, 1000)), Thousand),
              light_warning |-> light_sensitive(in.compound_name)]

(***************************************************************************)
(* 7) Molarity from mass & volume, lines 622-637.                          *)
(***************************************************************************)
molarity_from_mass(in) ==
    IF ~(/\ number_input(in.mass_mg, Zero)
         /\ number_input(in.mw, One)
         /\ number_input(in.vol_ml, Lit(1, 100)))
    THEN Refused
    ELSE LET mass_g == FDiv(in.mass_mg, Thousand)
             vol_L == FDiv(in.vol_ml, Thousand)
         IN  IF FLt(Zero, vol_L)
             THEN LET moles == FDiv(mass_g, in.mw)
                      molarity == FDiv(moles, vol_L)
                  IN  [error |-> "none", molarity |-> molarity,
                       mM |-> FMul(molarity, Thousand)]
             ELSE [error |-> "Volume must be > 0"]

(***************************************************************************)
(* 13) Beer-Lambert, lines 776-787.                                        *)
(***************************************************************************)
beer_lambert(in) ==
    IF ~(/\ number_input(in.absorbance, Zero)
         /\ number_input(in.epsilon, One)
         /\ number_input(in.pathlength, Lit(1, 100)))
    THEN Refused
    ELSE IF FLt(Zero, in.epsilon) /\ FLt(Zero, in.pathlength)
         THEN LET conc_M == FDiv(in.absorbance, FMul(in.epsilon, in.pathlength))
              IN  [error |-> "none", conc_M |-> conc_M,
                   mM |-> FMul(conc_M, Thousand)]
         ELSE [error |-> "Epsilon and pathlength must be > 0"]

(***************************************************************************)
(* The calculator modes as a specification of their own: the initial state *)
(* holds the widgets' values of one run (sidebar settings and the inputs   *)
(* of the selected mode), the mode's action computes what the run shows.   *)
(***************************************************************************)
VTypes == {"Aqueous / none", "DMSO"}

Settings ==
    [well_volume : {Lit(100, 1), Lit(300, 1)},
     max_vehicle : {Zero, Lit(1, 10)},
     vehicle_type : VTypes,
     stock_vehicle_percent : {Zero, Lit(50, 1), Lit(100, 1)}]

Units == {"mM", "uM"}

SingleConcs == {Lit(1, 100), Lit(4, 1), Lit(7, 1), Lit(25, 1), PowerOfTwo(Emax)}

SingleInputs ==
    [stock_conc : SingleConcs, stock_unit : Units,
     target_conc : SingleConcs, target_unit : Units]

SerialInputs ==
    [start_conc : {Lit(1, 1000000), Lit(1, 1), Lit(25, 1), PowerOfTwo(Emax - 3)},
     n_steps : 1..MaxSteps,
     dil_factor : {Lit(3, 2), Lit(2, 1), Lit(3, 1), Lit(10, 1), PowerOfTwo(Emax - 3)},
     final_vol_each : {Lit(5, 1), Lit(100, 1)}]

ConcPieces ==
    {[kind |-> "num", val |-> Lit(1, 100)], [kind |-> "num", val |-> Lit(10, 1)],
     [kind |-> "blank", val |-> Zero], [kind |-> "bad", val |-> Zero]}

ConcTexts == UNION {[1..n -> ConcPieces] : n \in 0..MaxConcs}

SeriesInputs ==
    [conc_txt : ConcTexts, stock_conc_uM : {Lit(7, 1), Lit(10000, 1)},
     reps : {1, 3}, overfill : {Lit(1, 1), Lit(11, 10)}]

PlateInputs ==
    [conc_txt : ConcTexts, stock_conc_uM : {Lit(7, 1), Lit(10000, 1)},
     dmso_cap : {Zero, Lit(1, 10)}]

AliquotInputs ==
    [total_vol_ml : {Lit(3, 10), Lit(1, 1), Lit(2, 1), PowerOfTwo(Emax)},
     aliquot_vol_ml : {Lit(1, 10), Lit(3, 10), Lit(5, 10)},
     dead_vol_ml : {Zero, Lit(1, 10), Lit(2, 1)}]

\* what is typed into the widgets of the modes below, admissible or not
MolarityInputs ==
    [mass_mg : {FromInt(-1), Zero, Lit(12, 1)},
     mw : {Lit(1, 2), Lit(28444, 100)},
     vol_ml : {FromInt(-1), Zero, Lit(10, 1)}]

BeerLambertInputs ==
    [absorbance : {Zero, Lit(1, 2)},
     epsilon : {FromInt(-1), Zero, Lit(50000, 1), PowerOfTwo(Emax)},
     pathlength : {FromInt(-1), Zero, Lit(1, 1), Lit(10, 1)}]

FromSolidInputs ==
    [compound_name : {"", "retinal"},
     mass_mg : {Lit(50, 1)},
     mw : {FromInt(-1), Zero, One, Lit(28444, 100)},
     target_unit : Units,
     target_conc : {Lit(1, 10000), Lit(3, 1), Lit(100, 1)},
     final_vol_ml : {FromInt(-1), Zero, Lit(1, 10), Lit(20, 1)}]

\* the PDF library of the process: "absent" (the import at lines 148-152
\* failed, HAS_FPDF is False), or present, and then rendering a report either
\* "renders" or "raises" (text outside latin-1, a library of another version)
Fpdf == {"absent", "renders", "raises"}

\* the widget values of one run: the mode's inputs, the sidebar settings and
\* whether the mode's PDF export button is pressed
WidgetsWith(mode, inputs, settings, fpdfs, presses) ==
    \E in \in inputs, gs \in settings, f \in fpdfs, b \in presses :
        calc = [phase |-> "input", mode |-> mode, in |-> in, gs |-> gs,
                fpdf |-> f, export_pressed |-> b]

\* a run with the PDF library in place and the export button left alone
Widgets(mode, inputs) ==
    WidgetsWith(mode, inputs, Settings, {"renders"}, {FALSE})

NoSession ==
    /\ user = [s \in Sessions |-> "absent"]
    /\ auth_session = [s \in Sessions |-> "absent"]
    /\ fav_reagents = [s \in Sessions |-> <<>>]
    /\ reagents = <<>>
    /\ rerun = [s \in Sessions |-> FALSE]
    /\ authed = [s \in Sessions |-> {}]
    /\ lastRun = [s \in Sessions |-> NoRun]

InitCalc ==
    /\ NoSession
    /\ \/ Widgets("Single dilution", SingleInputs)
       \/ Widgets("Serial dilutions", SerialInputs)
       \/ Widgets("Experiment series", SeriesInputs)
       \/ Widgets("Plate DMSO cap checker", PlateInputs)
       \/ Widgets("Aliquot splitter", AliquotInputs)
       \/ Widgets("Molarity from mass & volume", MolarityInputs)
       \/ Widgets("Beer-Lambert / A280", BeerLambertInputs)
       \/ Widgets("From solid", FromSolidInputs)

settings_after_overwritten(mode, gs) ==
    [well_volume |-> IF mode = "Serial dilutions" THEN Hundred ELSE gs.well_volume,
     max_vehicle |-> gs.max_vehicle,
     vehicle_type |-> gs.vehicle_type,
     stock_vehicle_percent |-> gs.stock_vehicle_percent,
     vehicle_frac |-> vehicle_frac(gs)]

\* the module-level settings variables when the mode's section has run: they
\* are assigned at lines 235-262 and by no mode section (the modes use
\* locals of their own, such as final_vol_each and dmso_cap)
settings_after(mode, gs) ==
    [well_volume |-> gs.well_volume,
     max_vehicle |-> gs.max_vehicle,
     vehicle_type |-> gs.vehicle_type,
     stock_vehicle_percent |-> gs.stock_vehicle_percent,
     vehicle_frac |-> vehicle_frac(gs)]

\* lines 158-169: None without the library, else the rendered bytes, unless
\* the library raises
make_pdf_report(fpdf) ==
    IF fpdf = "absent" THEN [exc |-> FALSE, val |-> "None"]
    ELSE IF fpdf = "renders" THEN [exc |-> FALSE, val |-> "bytes"]
    ELSE [exc |-> TRUE, val |-> "none"]

NoExport == [button |-> FALSE, info |-> FALSE, download |-> "none"]

pdf_section_blocking(mode, res, fpdf, pressed) ==
    [res |-> IF fpdf = "absent" THEN [error |-> "fpdf missing"] ELSE res,
     export |-> NoExport]

\* what a mode's section shows: its result and, below it, the PDF export of
\* the modes that have one (lines 367-382, 427-433, 476-482, 569-581; only
\* single dilution tells the user to install the library).  A section that
\* ended in an error or an exception does not reach its export.
pdf_section(mode, res, fpdf, pressed) ==
    IF mode \notin {"Single dilution", "Serial dilutions", "Experiment series",
                    "From solid"}
       \/ res.error # "none"
    THEN [res |-> res, export |-> NoExport]
    ELSE IF fpdf = "absent"
    THEN [res |-> res,
          export |-> [button |-> FALSE, info |-> mode = "Single dilution",
                      download |-> "none"]]
    ELSE [res |-> res,
          export |-> [button |-> TRUE, info |-> FALSE,
                      download |-> IF ~pressed THEN "none"
                                   ELSE IF make_pdf_report(fpdf).exc
                                   THEN "exception"
                                   ELSE make_pdf_report(fpdf).val]]

\* gs: the settings the user supplied for the run; after: the settings
\* variables at the end of the run
Show(mode, res) ==
    /\ calc.phase = "input"
    /\ calc.mode = mode
    /\ LET out == pdf_section(mode, res, calc.fpdf, calc.export_pressed)
       IN  calc' = [phase |-> "done", mode |-> mode, in |-> calc.in,
                    gs |-> calc.gs, fpdf |-> calc.fpdf,
                    export_pressed |-> calc.export_pressed,
                    res |-> out.res, export |-> out.export,
                    after |-> settings_after(mode, calc.gs)]
    /\ UNCHANGED sessVars

SingleDilution == Show("Single dilution", single_dilution(calc.in, calc.gs))

SerialDilutions == Show("Serial dilutions", serial_dilutions(calc.in, calc.gs))

ExperimentSeries ==
    Show("Experiment series", experiment_series(calc.in, calc.gs))

PlateDmsoCap ==
    Show("Plate DMSO cap checker", plate_dmso_cap(calc.in, calc.gs))

AliquotSplitter == Show("Aliquot splitter", aliquot_splitter(calc.in))

MolarityFromMass ==
    Show("Molarity from mass & volume", molarity_from_mass(calc.in))

BeerLambert == Show("Beer-Lambert / A280", beer_lambert(calc.in))

FromSolid == Show("From solid", from_solid(calc.in))

\* the user switches to "Molarity from mass & volume" and types the mass the
\* "From solid" run has just computed, with the same molecular weight and
\* volume; target_C records the concentration that mass was computed for
FeedMolarity ==
    /\ calc.phase = "done"
    /\ calc.mode = "From solid"
    /\ calc.res.error = "none"
    /\ calc' = [phase |-> "input", mode |-> "Molarity from mass & volume",
                gs |-> calc.gs, fpdf |-> calc.fpdf,
                export_pressed |-> calc.export_pressed,
                in |-> [mass_mg |-> calc.res.m_needed_mg, mw |-> calc.in.mw,
                        vol_ml |-> calc.in.final_vol_ml,
                        target_C |-> calc.res.C]]
    /\ UNCHANGED sessVars

NextCalc ==
    \/ SingleDilution
    \/ SerialDilutions
    \/ ExperimentSeries
    \/ PlateDmsoCap
    \/ AliquotSplitter
    \/ MolarityFromMass
    \/ BeerLambert
    \/ FromSolid
    \/ FeedMolarity

SpecCalc == InitCalc /\ [][NextCalc]_vars

(***************************************************************************)
(* The same runs with and without the PDF library and with the export      *)
(* button pressed or not, under the sidebar's default volume and cap with  *)
(* each stock vehicle, together with direct calls of make_pdf_report.      *)
(***************************************************************************)
ExportSettings ==
    {[well_volume |-> Lit(300, 1), max_vehicle |-> Lit(1, 10),
      vehicle_type |-> vt, stock_vehicle_percent |-> Lit(100, 1)] : vt \in VTypes}

ExportWidgets(mode, inputs) ==
    WidgetsWith(mode, inputs, ExportSettings, Fpdf, BOOLEAN)

InitExport ==
    /\ NoSession
    /\ \/ ExportWidgets("Single dilution", SingleInputs)
       \/ ExportWidgets("Serial dilutions", SerialInputs)
       \/ ExportWidgets("Experiment series", SeriesInputs)
       \/ ExportWidgets("Plate DMSO cap checker", PlateInputs)
       \/ ExportWidgets("Aliquot splitter", AliquotInputs)
       \/ ExportWidgets("Molarity from mass & volume", MolarityInputs)
       \/ ExportWidgets("Beer-Lambert / A280", BeerLambertInputs)
       \/ ExportWidgets("From solid", FromSolidInputs)
       \/ \E f \in Fpdf :
              calc = [phase |-> "call", mode |-> "make_pdf_report", fpdf |-> f]

\* make_pdf_report(title, lines) is called
CallMakePdfReport ==
    /\ calc.phase = "call"
    /\ calc' = [phase |-> "returned", mode |-> "make_pdf_report",
                fpdf |-> calc.fpdf, ret |-> make_pdf_report(calc.fpdf)]
    /\ UNCHANGED sessVars

NextExport ==
    \/ NextCalc
    \/ CallMakePdfReport

SpecExport == InitExport /\ [][NextExport]_vars

(***************************************************************************)
(* Claims about the calculator modes, checked under SpecCalc.              *)
(***************************************************************************)
Done(mode) == calc.phase = "done" /\ calc.mode = mode

Shown(mode) == Done(mode) /\ calc.res.error = "none"

\* the 25 / 4 / 300 example: 48 from stock, 252 of solvent
SingleExample ==
    (/\ calc.in.stock_conc = Lit(25, 1)
     /\ calc.in.target_conc = Lit(4, 1)
     /\ calc.gs.well_volume = Lit(300, 1))
        => /\ calc.res.v1_ul = Lit(48, 1)
           /\ calc.res.solvent_ul = Lit(252, 1)

\* C6 as claimed: for C1 >= C2 (same unit) the stock volume is
\* V1 = (C2*V2)/C1, V1 <= V2 and V1 + solvent = V2 exactly (the sum taken
\* as the program would compute it, in floats; inputs whose product C2*V2
\* overflows are left aside).
C6_SingleDilutionExact ==
    (/\ Shown("Single dilution")
     /\ FLe(calc.in.target_conc, calc.in.stock_conc)
     /\ IsFinite(FMul(calc.in.target_conc, calc.gs.well_volume)))
        => LET v1 == calc.res.v1_ul
               v2 == calc.gs.well_volume
           IN  /\ v1 = FDiv(FMul(calc.in.target_conc, v2), calc.in.stock_conc)
               /\ ~XLt(v2, v1)
               /\ FAdd(v1, calc.res.solvent_ul) = v2
               /\ SingleExample

\* C6 as amended: for C1 >= C2 (same unit) V1 is the float quotient
\* (C2*V2)/C1; unless C2*V2 overflows, V1 exceeds V2 by at most one unit in
\* the last place of V2, and V1 + solvent (summed exactly or in floats)
\* differs from V2 by at most one such unit; in the 25 / 4 / 300 example
\* V1 = 48 and solvent = 252.
C6_SingleDilutionWithinUlp ==
    (Shown("Single dilution") /\ FLe(calc.in.target_conc, calc.in.stock_conc))
        => LET v1 == calc.res.v1_ul
               v2 == calc.gs.well_volume
               sv == calc.res.solvent_ul
               lo == DSub(v2, Ulp(v2))
               hi == DAdd(v2, Ulp(v2))
           IN  /\ v1 = FDiv(FMul(calc.in.target_conc, v2), calc.in.stock_conc)
               /\ IsFinite(FMul(calc.in.target_conc, v2)) =>
                      /\ IsFinite(v1) /\ IsFinite(sv)
                      /\ DLe(v1, hi)
                      /\ DLe(DSub(lo, sv), v1) /\ DLe(v1, DSub(hi, sv))
                      /\ DLe(lo, FAdd(v1, sv)) /\ DLe(FAdd(v1, sv), hi)
               /\ SingleExample

C6_Witness ==
    /\ Shown("Single dilution")
    /\ FLe(calc.in.target_conc, calc.in.stock_conc)
    /\ IsFinite(calc.res.v1_ul)
    /\ DLt(calc.gs.well_volume, calc.res.v1_ul)
    /\ calc.res.solvent_ul = Zero

\* C7: single and serial dilution never report a negative solvent volume
\* (a negative V2 - V1 is clamped to zero), the low-volume flag is raised
\* whenever V1 < 1, and single dilution then suggests an intermediate stock
\* of concentration C2*V2/1.
C7_SolventClampedAndLowVolumeFlag ==
    /\ Shown("Single dilution") =>
           LET v1 == calc.res.v1_ul
               v2 == calc.gs.well_volume
           IN  /\ ~XLt(calc.res.solvent_ul, Zero)
               /\ XLt(v2, v1) => calc.res.solvent_ul = Zero
               /\ calc.res.low_volume <=> XLt(v1, Lit(1, 1))
               /\ XLt(v1, Lit(1, 1)) =>
                      calc.res.c_intermediate =
                          FDiv(FMul(calc.in.target_conc, v2), Lit(1, 1))
    /\ Shown("Serial dilutions") =>
           \A k \in 1..Len(calc.res.rows) :
               /\ ~XLt(calc.res.rows[k].solvent, Zero)
               /\ ~XLt(calc.res.locs[k].solvent_ul, Zero)
               /\ (calc.res.rows[k].note # "")
                      <=> XLt(calc.res.locs[k].v1_ul, Lit(1, 1))

\* the vehicle fraction the sidebar settings stand for
ExpectedFrac(gs) ==
    IF gs.vehicle_type = "Aqueous / none" \/ gs.stock_vehicle_percent = Zero
    THEN Zero
    ELSE FDiv(gs.stock_vehicle_percent, Lit(100, 1))

ExpectedVehicle(v1, gs) ==
    FMul(FDiv(FMul(v1, ExpectedFrac(gs)), gs.well_volume), Lit(100, 1))

\* C8: the vehicle and pipetting checks are advisory: vehicle% is
\* (V1 * vehicle_fraction / V2) * 100, the over-cap flag is raised exactly
\* when vehicle% > cap, and V1, solvent and vehicle% are what the formulas
\* give whether or not a flag is raised.
C8_ChecksAreAdvisory ==
    /\ (Done("Single dilution") /\ calc.in.stock_unit = calc.in.target_unit) =>
           /\ calc.res.error = "none"
           /\ LET v1 == calc.res.v1_ul
                  v2 == calc.gs.well_volume
              IN  /\ v1 = FDiv(FMul(calc.in.target_conc, v2), calc.in.stock_conc)
                  /\ calc.res.solvent_ul =
                         (IF XLt(v2, v1) THEN Zero ELSE FSub(v2, v1))
                  /\ calc.res.vehicle_percent = ExpectedVehicle(v1, calc.gs)
                  /\ calc.res.over_cap
                         <=> XLt(calc.gs.max_vehicle, calc.res.vehicle_percent)
    /\ Shown("Experiment series") =>
           \A k \in 1..Len(calc.res.rows) :
               LET row == calc.res.rows[k]
                   loc == calc.res.locs[k]
               IN  /\ loc.v1_ul = FDiv(FMul(row.final_conc, calc.gs.well_volume),
                                       calc.in.stock_conc_uM)
                   /\ loc.vehicle_percent = ExpectedVehicle(loc.v1_ul, calc.gs)
                   /\ row.add_stock = Round10(loc.v1_ul, 3)
                   /\ row.vehicle = Round10(loc.vehicle_percent, 5)
                   /\ (row.ok = "> limit")
                          <=> XLt(calc.gs.max_vehicle, loc.vehicle_percent)

C8_Witness ==
    /\ Shown("Single dilution")
    /\ calc.res.over_cap
    /\ calc.res.low_volume
    /\ calc.res.v1_ul # Zero
    /\ calc.res.vehicle_percent # Zero

\* C9: serial dilution produces N rows in step order, row k has
\* from = S/F^(k-1) and to = S/F^k, each from is the previous to, and every
\* row takes final_volume/F.
C9_SerialRowsExact ==
    Done("Serial dilutions") =>
        /\ calc.res.error = "none"
        /\ Len(calc.res.rows) = calc.in.n_steps
        /\ \A k \in 1..Len(calc.res.rows) :
               LET row == calc.res.rows[k]
                   F == calc.in.dil_factor
               IN  /\ row.step = k
                   /\ DEq(DMul(row.from, DPow(F, k - 1)), calc.in.start_conc)
                   /\ DEq(DMul(row.to, DPow(F, k)), calc.in.start_conc)
                   /\ k > 1 => row.from = calc.res.rows[k - 1].to
                   /\ IsFinite(row.take)
                   /\ DEq(DMul(row.take, F), calc.in.final_vol_each)

\* C10: for aliquot_size > 0 and dead < total the splitter gives
\* n = floor((total - dead)/aliquot_size) >= 0 and a leftover with
\* n*aliquot_size + leftover = total - dead and 0 <= leftover < aliquot_size.
C10_AliquotSplit ==
    (Done("Aliquot splitter")
        /\ FLt(Zero, calc.in.aliquot_vol_ml)
        /\ FLt(calc.in.dead_vol_ml, calc.in.total_vol_ml)) =>
        /\ calc.res.error = "none"
        /\ LET usable == FSub(calc.in.total_vol_ml, calc.in.dead_vol_ml)
               n == calc.res.n_aliquots
               a == calc.in.aliquot_vol_ml
           IN  /\ n = Floor(FDiv(usable, a))
               /\ n >= 0
               /\ FAdd(FMul(FromInt(n), a), calc.res.leftover) = usable
               /\ ~DLt(calc.res.leftover, Zero)
               /\ DLt(calc.res.leftover, a)

\* C11: molarity with volume <= 0, Beer-Lambert with epsilon <= 0 or
\* pathlength <= 0, aliquot split with dead >= total and single dilution
\* with differing units give an error and no numeric result; every other
\* (admissible) input of those modes gives a numeric result and no error.
C11_DomainErrorsWithhold ==
    /\ Done("Molarity from mass & volume") =>
           IF ~XLt(Zero, calc.in.vol_ml)
           THEN calc.res.error # "none" /\ DOMAIN calc.res = {"error"}
           ELSE (number_input(calc.in.mass_mg, Zero) /\ number_input(calc.in.mw, One)
                 /\ number_input(calc.in.vol_ml, Lit(1, 100)))
                    => calc.res.error = "none" /\ "molarity" \in DOMAIN calc.res
    /\ Done("Beer-Lambert / A280") =>
           IF ~XLt(Zero, calc.in.epsilon) \/ ~XLt(Zero, calc.in.pathlength)
           THEN calc.res.error # "none" /\ DOMAIN calc.res = {"error"}
           ELSE (number_input(calc.in.absorbance, Zero)
                 /\ number_input(calc.in.epsilon, One)
                 /\ number_input(calc.in.pathlength, Lit(1, 100)))
                    => calc.res.error = "none" /\ "conc_M" \in DOMAIN calc.res
    /\ Done("Aliquot splitter") =>
           IF ~XLt(calc.in.dead_vol_ml, calc.in.total_vol_ml)
           THEN calc.res.error # "none" /\ DOMAIN calc.res = {"error"}
           ELSE calc.res.error = "none" /\ "n_aliquots" \in DOMAIN calc.res
    /\ Done("Single dilution") =>
           IF calc.in.stock_unit # calc.in.target_unit
           THEN calc.res.error # "none" /\ DOMAIN calc.res = {"error"}
           ELSE calc.res.error = "none" /\ "v1_ul" \in DOMAIN calc.res

\* C12: the mass-to-solution mode rejects a non-positive molecular weight
\* or volume: such an input is refused and no mass_needed is produced for
\* it; admissible inputs give mass_needed = C * V * MW.
C12_NonPositiveRejected ==
    Done("From solid") =>
        /\ (~XLt(Zero, calc.in.mw) \/ ~XLt(Zero, calc.in.final_vol_ml))
               => /\ calc.res.error # "none"
                  /\ "m_needed_mg" \notin DOMAIN calc.res
        /\ calc.res.error = "none"
               => /\ XLt(Zero, calc.in.mw) /\ XLt(Zero, calc.in.final_vol_ml)
                  /\ calc.res.m_needed_mg =
                         FMul(FMul(FMul(calc.res.C,
                                        FDiv(calc.in.final_vol_ml, Lit(1000, 1))),
                                   calc.in.mw), Lit(1000, 1))

C12_Witness ==
    /\ Done("From solid")
    /\ calc.in.mw = Zero
    /\ XLt(Zero, calc.in.final_vol_ml)
    /\ calc.res = Refused

\* the molarity run was fed the mass of a "From solid" run
Fed == Done("Molarity from mass & volume") /\ "target_C" \in DOMAIN calc.in

\* C13 as claimed: the mass computed by the mass-to-solution mode for
\* concentration C, fed into molarity-from-mass with the same MW and volume,
\* returns C.
C13_RoundTripExact ==
    Fed => /\ calc.res.error = "none"
           /\ calc.res.molarity = calc.in.target_C

\* C13 as amended: the round trip returns C up to the rounding of its eight
\* float operations: a relative error of at most 8 * 2^-Prec (provided the
\* mass did not overflow).
C13_RoundTripWithinRounding ==
    (Fed /\ IsFinite(calc.in.mass_mg)) =>
        /\ calc.res.error = "none"
        /\ IsFinite(calc.res.molarity)
        /\ LET C == calc.in.target_C
               diff == DAbs(DSub(calc.res.molarity, C))
           IN  DLe(DMul(diff, [m |-> 1, e |-> Prec - 3]), C)

C13_Witness ==
    /\ Fed
    /\ calc.res.error = "none"
    /\ calc.res.molarity # calc.in.target_C

\* C14: no mode changes the global settings: after a mode has computed its
\* result, well volume, maximum vehicle %, vehicle type, stock vehicle % and
\* the derived vehicle fraction are the values the user supplied for the
\* run, and every row of the run was computed with those values.
C14_SettingsUnchanged ==
    calc.phase = "done" =>
        /\ calc.after.well_volume = calc.gs.well_volume
        /\ calc.after.max_vehicle = calc.gs.max_vehicle
        /\ calc.after.vehicle_type = calc.gs.vehicle_type
        /\ calc.after.stock_vehicle_percent = calc.gs.stock_vehicle_percent
        /\ calc.after.vehicle_frac = ExpectedFrac(calc.gs)
        /\ (calc.mode \in {"Experiment series", "Plate DMSO cap checker"}
              /\ calc.res.error = "none") =>
               \A k \in 1..Len(calc.res.rows) :
                   LET row == calc.res.rows[k]
                       loc == calc.res.locs[k]
                       v1 == FDiv(FMul(row.final_conc, calc.after.well_volume),
                                  calc.in.stock_conc_uM)
                   IN  /\ loc.v1_ul = v1
                       /\ loc.vehicle_percent =
                              FMul(FDiv(FMul(v1, calc.after.vehicle_frac),
                                        calc.after.well_volume), Lit(100, 1))

C14_Witness ==
    /\ Shown("Experiment series")
    /\ Len(calc.res.rows) = 2
    /\ calc.res.rows[1].final_conc # calc.res.rows[2].final_conc
    /\ calc.after.vehicle_frac # Zero
    /\ calc.after.well_volume = calc.gs.well_volume

\* what the mode computes from the widgets' values
ModeResult ==
    CASE calc.mode = "Single dilution" -> single_dilution(calc.in, calc.gs)
      [] calc.mode = "Serial dilutions" -> serial_dilutions(calc.in, calc.gs)
      [] calc.mode = "Experiment series" -> experiment_series(calc.in, calc.gs)
      [] calc.mode = "Plate DMSO cap checker" -> plate_dmso_cap(calc.in, calc.gs)
      [] calc.mode = "Aliquot splitter" -> aliquot_splitter(calc.in)
      [] calc.mode = "Molarity from mass & volume" -> molarity_from_mass(calc.in)
      [] calc.mode = "Beer-Lambert / A280" -> beer_lambert(calc.in)
      [] calc.mode = "From solid" -> from_solid(calc.in)

\* C15: without the PDF library every mode shows the results it shows with
\* the library, no PDF export is offered or produced, and make_pdf_report
\* returns None without raising.
C15_NoRendererNoBlock ==
    /\ (calc.phase = "done" /\ calc.fpdf = "absent") =>
           /\ calc.res = ModeResult
           /\ ~calc.export.button
           /\ calc.export.download = "none"
    /\ (calc.phase = "returned" /\ calc.fpdf = "absent") =>
           calc.ret = [exc |-> FALSE, val |-> "None"]

C15_Witness ==
    /\ Shown("Single dilution")
    /\ calc.fpdf = "absent"
    /\ calc.export_pressed
    /\ calc.export.info
    /\ ~calc.export.button

\* the concentrations typed into conc_txt, blank pieces left out
RECURSIVE Supplied(_)
Supplied(toks) ==
    IF toks = <<>> THEN <<>>
    ELSE IF toks[1].kind = "blank" THEN Supplied(Tail(toks))
    ELSE <<toks[1].val>> \o Supplied(Tail(toks))

\* C16: experiment series and the plate DMSO cap checker show one row per
\* supplied concentration, in input order, and each row is the single-row
\* formula of that concentration alone: V1 = C*V2/stock, solvent = V2 - V1
\* clamped at zero, vehicle% = V1*vehicle_fraction/V2*100.
C16_RowsAreSingleRowFormula ==
    /\ Shown("Experiment series") =>
           LET cs == Supplied(calc.in.conc_txt)
           IN  /\ Len(calc.res.rows) = Len(cs)
               /\ \A k \in 1..Len(cs) :
                      LET v1 == single_v1(calc.in.stock_conc_uM, cs[k],
                                          calc.gs.well_volume)
                      IN  /\ calc.res.rows[k].final_conc = cs[k]
                          /\ calc.res.locs[k].v1_ul = v1
                          /\ calc.res.locs[k].solvent_ul =
                                 single_solvent(calc.gs.well_volume, v1)
                          /\ ~XLt(calc.res.rows[k].add_medium, Zero)
                          /\ calc.res.locs[k].vehicle_percent =
                                 ExpectedVehicle(v1, calc.gs)
    /\ Shown("Plate DMSO cap checker") =>
           LET cs == Supplied(calc.in.conc_txt)
           IN  /\ Len(calc.res.rows) = Len(cs)
               /\ \A k \in 1..Len(cs) :
                      LET v1 == single_v1(calc.in.stock_conc_uM, cs[k],
                                          calc.gs.well_volume)
                      IN  /\ calc.res.rows[k].final_conc = cs[k]
                          /\ calc.res.locs[k].v1_ul = v1
                          /\ calc.res.locs[k].vehicle_percent =
                                 ExpectedVehicle(v1, calc.gs)

\* the run that just ended was a press of Logout: it reached the app page
\* and asked for a rerun
LoggedOut(s) == lastRun[s].page = "app" /\ rerun[s]

\* C17: after logout, whether or not sign_out raised, the session holds no
\* user and no session token (a plan is never stored), and the logout run
\* produced no calculator output.
C17_LogoutClearsSession ==
    \A s \in Sessions :
        LoggedOut(s) =>
            /\ user[s] \in {"absent", "None"}
            /\ auth_session[s] \in {"absent", "None"}
            /\ ~lastRun[s].output

NameFirst == "Give the compound a name first."

\* C18: a favourite record is created only by pressing save with a non-empty
\* compound name; pressing save with an empty name creates nothing and shows
\* the "give a name first" warning; a run of the mode without the press
\* creates nothing and shows no such warning; existing records are never
\* changed or removed.
C18_FavoriteOnlyBySave ==
    [][/\ Len(reagents') >= Len(reagents)
       /\ SubSeq(reagents', 1, Len(reagents)) = reagents
       /\ \A s \in Sessions :
              lastRun'[s] # lastRun[s] =>
                 /\ reagents' # reagents =>
                        lastRun'[s].press = "save" /\ lastRun'[s].name # ""
                 /\ (lastRun'[s].press = "save" /\ lastRun'[s].name = "") =>
                        reagents' = reagents /\ NameFirst \in lastRun'[s].msgs
                 /\ (lastRun'[s].saveShown /\ lastRun'[s].press # "save") =>
                        reagents' = reagents /\ NameFirst \notin lastRun'[s].msgs]_vars

\* the number of registry records of the loaded user id with name n
RECURSIVE Records(_, _)
Records(tbl, n) ==
    IF tbl = <<>> THEN 0
    ELSE Records(Tail(tbl), n)
         + (IF tbl[1].user_id = DEMO_USER_ID /\ tbl[1].name = n THEN 1 ELSE 0)

\* C19: after every run the session's favourites list holds no name twice
\* and holds every name of the registry records, and the number of registry
\* records of a name grows by one with each save action performed for that
\* name and with nothing else.
C19_FavoritesListAndRecordCount ==
    [][\A s \in Sessions :
          LET favs == fav_reagents'[s]
              saved(n) == lastRun'[s].press = "save" /\ lastRun'[s].name = n
          IN  /\ \A i, j \in 1..Len(favs) : favs[i] = favs[j] => i = j
              /\ \A n \in Names :
                     /\ Records(reagents', n) > 0 => InSeq(n, favs)
                     /\ Records(reagents', n) =
                            Records(reagents, n) + (IF saved(n) THEN 1 ELSE 0)]_vars

====
